---- MODULE Spec2Model ----
(***************************************************************************)
(* github-repo-fetcher: src/fetcher/lambda_function.py                     *)
(*                                                                         *)
(* A run is one execution of main(): it reads a username, calls            *)
(* get_public_repositories(username) and prints the result.  Each run has  *)
(* its own locals; the only process-wide object is the module logger.      *)
(* pc labels are the line numbers of lambda_function.py.                   *)
(***************************************************************************)
EXTENDS Integers, Sequences, FiniteSets, TLC

VARIABLES
    pc,         \* run -> line about to execute, or "done" / "crashed"
    username,   \* run -> the string read by input() and passed to the call
    url,        \* run -> local `url` of get_public_repositories
    upstream,   \* run -> what requests.get did for this call (environment)
    response,   \* run -> local `response` of get_public_repositories
    repos,      \* run -> local `repos` (the decoded JSON value)
    it,         \* run -> the elements the comprehension iterates over
    idx,        \* run -> position of the comprehension in `it`
    names,      \* run -> the list the comprehension is building
    ret,        \* run -> how the call to get_public_repositories ended
    sent,       \* run -> number of requests.get calls made by the call
    target,     \* run -> the URL handed to requests.get
    decoded,    \* run -> whether response.json() was called
    line,       \* run -> position of main's `for repo in repos`
    out,        \* run -> lines printed on stdout by main
    log         \* level -> number of records given to the module logger

vars == <<pc, username, url, upstream, response, repos, it, idx, names, ret,
          sent, target, decoded, line, out, log>>

-----------------------------------------------------------------------------
(* Bounds *)

MaxRepos == 2       \* longest JSON array the upstream returns
NumThreads == 2     \* concurrent runs in SpecConc

-----------------------------------------------------------------------------
(* JSON values as Python sees them after response.json() *)

JInvalid == [kind |-> "invalid", str |-> "", items |-> <<>>]
JNull == [kind |-> "null", str |-> "", items |-> <<>>]
JNumber == [kind |-> "number", str |-> "7", items |-> <<>>]
JTrue == [kind |-> "bool", str |-> "true", items |-> <<>>]
JStr(s) == [kind |-> "string", str |-> s, items |-> <<>>]
JArr(xs) == [kind |-> "array", str |-> "", items |-> xs]
\* an object is its members in order; a member is a key with a string value
JMember(k, v) == [kind |-> "member", str |-> k, items |-> <<JStr(v)>>]
JObj(ms) == [kind |-> "object", str |-> "", items |-> ms]

Repo1 == JObj(<<JMember("name", "repo1")>>)
Repo2 == JObj(<<JMember("id", "2"), JMember("name", "repo2")>>)
NoName == JObj(<<JMember("id", "3")>>)
NotFoundBody == JObj(<<JMember("message", "Not Found")>>)

Elements == {Repo1, Repo2, NoName, JStr("name"), JNull, JArr(<<>>)}

RECURSIVE SeqsUpTo(_, _)
SeqsUpTo(S, n) ==
    IF n = 0 THEN {<<>>}
    ELSE LET shorter == SeqsUpTo(S, n - 1)
         IN  shorter \cup {Append(s, e) : s \in {x \in shorter : Len(x) = n - 1}, e \in S}

Arrays == {JArr(xs) : xs \in SeqsUpTo(Elements, MaxRepos)}

Bodies == Arrays \cup {JInvalid, JNull, JNumber, JTrue, JStr(""), JStr("ab"),
                       JObj(<<>>), NotFoundBody}

StatusCodes == {200, 201, 301, 403, 404, 500}

Reason(code) ==
    CASE code = 200 -> "OK"
      [] code = 201 -> "Created"
      [] code = 301 -> "Moved Permanently"
      [] code = 403 -> "Forbidden"
      [] code = 404 -> "Not Found"
      [] OTHER -> "Internal Server Error"

\* what one call of requests.get does: raise, or return a response object
Fails(e) == [raises |-> e, status_code |-> 0, reason |-> "", body |-> JNull]
Responds(code, b) == [raises |-> "", status_code |-> code, reason |-> Reason(code), body |-> b]

NoResponse == Fails("")

Upstreams == {Fails("ConnectionError"), Fails("Timeout")}
             \cup {Responds(c, b) : c \in StatusCodes, b \in Bodies}

Usernames == {"", "octocat", "a/b?c"}

\* the smaller upstream and user population of the concurrent specification
ConcUpstreams ==
    {Fails("ConnectionError"),
     Responds(404, NotFoundBody),
     Responds(200, JArr(<<>>)),
     Responds(200, JArr(<<Repo1, Repo2>>)),
     Responds(200, JArr(<<Repo1, NoName>>)),
     Responds(200, JInvalid),
     Responds(200, JNull)}

ConcUsernames == {"octocat", "a/b?c"}

-----------------------------------------------------------------------------
(* Python's semantics of the expressions of get_public_repositories *)

\* a percent-encoding of the reserved characters of a string
RECURSIVE Quote(_)
Quote(u) ==
    IF u = "" THEN ""
    ELSE LET c == SubSeq(u, 1, 1)
             q == CASE c = "/" -> "%2F" [] c = "?" -> "%3F" [] OTHER -> c
         IN  q \o Quote(SubSeq(u, 2, Len(u)))

\* the f-string with the username escaped first
EndpointQuoted(u) == "https://api.github.com/users/" \o Quote(u) \o "/repos"

\* line 25: the f-string
Endpoint(u) == "https://api.github.com/users/" \o u \o "/repos"

\* any 2xx status taken as success (response.ok for these codes)
IsSuccess2xx(code) == code >= 200 /\ code < 300

\* line 32: response.status_code == 200
IsSuccess(code) == code = 200

\* line 34: response.json() raises on a body that is not JSON
Decodable(b) == b.kind # "invalid"

\* `for repo in repos or []`: None iterated as an empty list
IterableOrNone(v) == v.kind \in {"array", "object", "string", "null"}

\* line 35: `for repo in repos` needs an iterable: a list, a dict or a str
Iterable(v) == v.kind \in {"array", "object", "string"}

\* line 35: what the iteration yields: the items of a list, the keys of a
\* dict, the characters of a str
IterItems(v) ==
    CASE v.kind = "array" -> v.items
      [] v.kind = "object" -> [i \in 1..Len(v.items) |-> JStr(v.items[i].str)]
      [] v.kind = "string" -> [i \in 1..Len(v.str) |-> JStr(SubSeq(v.str, i, i))]
      [] OTHER -> <<>>

HasKey(e, k) == \E i \in 1..Len(e.items) : e.items[i].str = k

\* line 35: repo["name"]: a dict without the key raises KeyError, anything
\* that is not a dict raises TypeError
SubscriptError(e) ==
    IF e.kind # "object" THEN "TypeError"
    ELSE IF ~HasKey(e, "name") THEN "KeyError"
    ELSE ""

Subscript(e) ==
    LET i == CHOOSE j \in 1..Len(e.items) : e.items[j].str = "name"
    IN  e.items[i].items[1].str

\* a name already collected is dropped
CollectDistinct(acc, v) ==
    IF \E i \in 1..Len(acc) : acc[i] = v THEN acc ELSE Append(acc, v)

\* line 35: the comprehension appends each name to the list it builds
Collect(acc, v) == Append(acc, v)

\* a module-level list that every invocation appends to and none resets
LeftoverList(t) ==
    IF \E o \in DOMAIN names : o # t
    THEN names[CHOOSE o \in DOMAIN names : o # t]
    ELSE names[t]

\* line 35: the comprehension builds a list of its own
FreshList(t) == <<>>

\* `if repos is not None:` is true of every list
HasReposNotNone(rs) == TRUE

\* line 59: `if repos:` is true of a non-empty list
HasRepos(rs) == Len(rs) > 0

\* lines 60 and 63: what main prints
Header(u) == "Public repositories of " \o u \o ":"
RepoLine(r) == "- " \o r
NoReposMessage == "No public repositories found or an error occurred."

Returned(v) == [kind |-> "returned", value |-> v, exc |-> ""]
Raised(e) == [kind |-> "raised", value |-> <<>>, exc |-> e]
NotCalled == [kind |-> "none", value |-> <<>>, exc |-> ""]

Threads == DOMAIN pc

\* logger.info / logger.error: one more record on the process-wide logger
LogInfo(n) == log' = [log EXCEPT !.INFO = @ + n]
LogError(n) == log' = [log EXCEPT !.ERROR = @ + n]

\* the whole body in try/except, the handler returning []
PropagateSwallowed(t, e) ==
    /\ ret' = [ret EXCEPT ![t] = Returned(<<>>)]
    /\ pc' = [pc EXCEPT ![t] = "L57"]

\* a failed call attempted once more before the exception is let through
PropagateRetried(t, e) ==
    IF sent[t] = 0
    THEN ret' = ret /\ pc' = [pc EXCEPT ![t] = "L27"]
    ELSE ret' = [ret EXCEPT ![t] = Raised(e)] /\ pc' = [pc EXCEPT ![t] = "crashed"]

\* an exception raised inside get_public_repositories: nothing catches it,
\* neither there nor in main (lines 56 and 70-71), so the run ends with it
Propagate(t, e) ==
    /\ ret' = [ret EXCEPT ![t] = Raised(e)]
    /\ pc' = [pc EXCEPT ![t] = "crashed"]

\* `response` kept in a module-level name: the last one any invocation stored
ReceivedShared(t) ==
    IF \E o \in DOMAIN response : o # t /\ response[o] # NoResponse
    THEN response[CHOOSE o \in DOMAIN response : o # t /\ response[o] # NoResponse]
    ELSE response[t]

\* the frame's own `response` object
Received(t) == response[t]

-----------------------------------------------------------------------------
(* State after module import (lines 1-6), before main() has run *)

InitRuns(T) ==
    /\ pc = [t \in T |-> "L54"]
    /\ username = [t \in T |-> ""]
    /\ url = [t \in T |-> ""]
    /\ upstream = [t \in T |-> NoResponse]
    /\ response = [t \in T |-> NoResponse]
    /\ repos = [t \in T |-> JNull]
    /\ it = [t \in T |-> <<>>]
    /\ idx = [t \in T |-> 0]
    /\ names = [t \in T |-> <<>>]
    /\ ret = [t \in T |-> NotCalled]
    /\ sent = [t \in T |-> 0]
    /\ target = [t \in T |-> ""]
    /\ decoded = [t \in T |-> FALSE]
    /\ line = [t \in T |-> 0]
    /\ out = [t \in T |-> <<>>]
    /\ log = [INFO |-> 0, ERROR |-> 0]

Init == InitRuns({1})

InitConc == InitRuns(1..NumThreads)

-----------------------------------------------------------------------------
(* main, lines 54-55: read the username *)

Input(t, U) ==
    /\ pc[t] = "L54"
    /\ \E u \in U : username' = [username EXCEPT ![t] = u]
    /\ LogInfo(1)
    /\ pc' = [pc EXCEPT ![t] = "L56"]
    /\ UNCHANGED <<url, upstream, response, repos, it, idx, names, ret, sent,
                   target, decoded, line, out>>

(* main line 56 calls get_public_repositories; lines 25-26 build the URL *)

BuildUrl(t) ==
    /\ pc[t] = "L56"
    /\ url' = [url EXCEPT ![t] = Endpoint(username[t])]
    /\ LogInfo(1)
    /\ pc' = [pc EXCEPT ![t] = "L27"]
    /\ UNCHANGED <<username, upstream, response, repos, it, idx, names, ret,
                   sent, target, decoded, line, out>>

(* lines 27-30: requests.get(url) raises or returns a response *)

Get(t, R) ==
    /\ pc[t] = "L27"
    /\ sent' = [sent EXCEPT ![t] = @ + 1]
    /\ target' = [target EXCEPT ![t] = url[t]]
    /\ \E r \in R :
          /\ upstream' = [upstream EXCEPT ![t] = r]
          /\ IF r.raises # ""
             THEN /\ Propagate(t, r.raises)
                  /\ UNCHANGED <<response, log>>
             ELSE /\ response' = [response EXCEPT ![t] = r]
                  /\ LogInfo(1)
                  /\ pc' = [pc EXCEPT ![t] = "L32"]
                  /\ UNCHANGED ret
    /\ UNCHANGED <<username, url, repos, it, idx, names, decoded, line, out>>

(* line 32: branch on the status code *)

CheckStatus(t) ==
    /\ pc[t] = "L32"
    /\ pc' = [pc EXCEPT ![t] =
                IF IsSuccess(Received(t).status_code) THEN "L33" ELSE "L37"]
    /\ UNCHANGED <<username, url, upstream, response, repos, it, idx, names,
                   ret, sent, target, decoded, line, out, log>>

(* lines 33-34: log, then decode the body *)

Json(t) ==
    /\ pc[t] = "L33"
    /\ LogInfo(1)
    /\ decoded' = [decoded EXCEPT ![t] = TRUE]
    /\ IF Decodable(Received(t).body)
       THEN /\ repos' = [repos EXCEPT ![t] = Received(t).body]
            /\ pc' = [pc EXCEPT ![t] = "L35"]
            /\ UNCHANGED ret
       ELSE /\ Propagate(t, "JSONDecodeError")
            /\ UNCHANGED repos
    /\ UNCHANGED <<username, url, upstream, response, it, idx, names, sent,
                   target, line, out>>

(* line 35: the comprehension starts: iter(repos) and an empty list *)

Iter(t) ==
    /\ pc[t] = "L35"
    /\ IF Iterable(repos[t])
       THEN /\ it' = [it EXCEPT ![t] = IterItems(repos[t])]
            /\ idx' = [idx EXCEPT ![t] = 1]
            /\ names' = [names EXCEPT ![t] = FreshList(t)]
            /\ pc' = [pc EXCEPT ![t] = "L35for"]
            /\ UNCHANGED ret
       ELSE /\ Propagate(t, "TypeError")
            /\ UNCHANGED <<it, idx, names>>
    /\ UNCHANGED <<username, url, upstream, response, repos, sent, target,
                   decoded, line, out, log>>

(* line 35: one element of the comprehension: repo["name"] *)

ForRepo(t) ==
    /\ pc[t] = "L35for"
    /\ idx[t] <= Len(it[t])
    /\ LET repo == it[t][idx[t]]
       IN  IF SubscriptError(repo) = ""
           THEN /\ names' = [names EXCEPT ![t] = Collect(@, Subscript(repo))]
                /\ idx' = [idx EXCEPT ![t] = @ + 1]
                /\ UNCHANGED <<pc, ret>>
           ELSE /\ Propagate(t, SubscriptError(repo))
                /\ UNCHANGED <<names, idx>>
    /\ UNCHANGED <<username, url, upstream, response, repos, it, sent, target,
                   decoded, line, out, log>>

(* line 35: the iterator is exhausted: return the list *)

ReturnNames(t) ==
    /\ pc[t] = "L35for"
    /\ idx[t] > Len(it[t])
    /\ ret' = [ret EXCEPT ![t] = Returned(names[t])]
    /\ pc' = [pc EXCEPT ![t] = "L57"]
    /\ UNCHANGED <<username, url, upstream, response, repos, it, idx, names,
                   sent, target, decoded, line, out, log>>

(* lines 36-40: any other status: log the error, return [] *)

ReturnEmpty(t) ==
    /\ pc[t] = "L37"
    /\ LogError(1)
    /\ ret' = [ret EXCEPT ![t] = Returned(<<>>)]
    /\ pc' = [pc EXCEPT ![t] = "L57"]
    /\ UNCHANGED <<username, url, upstream, response, repos, it, idx, names,
                   sent, target, decoded, line, out>>

(* main, lines 57-59: log the result, branch on `if repos:` *)

CheckRepos(t) ==
    /\ pc[t] = "L57"
    /\ LogInfo(1)
    /\ pc' = [pc EXCEPT ![t] = IF HasRepos(ret[t].value) THEN "L60" ELSE "L66"]
    /\ UNCHANGED <<username, url, upstream, response, repos, it, idx, names,
                   ret, sent, target, decoded, line, out>>

(* main, lines 60-61: the header *)

PrintHeader(t) ==
    /\ pc[t] = "L60"
    /\ out' = [out EXCEPT ![t] = Append(@, Header(username[t]))]
    /\ LogInfo(1)
    /\ line' = [line EXCEPT ![t] = 1]
    /\ pc' = [pc EXCEPT ![t] = "L62"]
    /\ UNCHANGED <<username, url, upstream, response, repos, it, idx, names,
                   ret, sent, target, decoded>>

(* main, lines 62-64: one line per repository *)

PrintRepo(t) ==
    /\ pc[t] = "L62"
    /\ line[t] <= Len(ret[t].value)
    /\ out' = [out EXCEPT ![t] = Append(@, RepoLine(ret[t].value[line[t]]))]
    /\ LogInfo(1)
    /\ line' = [line EXCEPT ![t] = @ + 1]
    /\ UNCHANGED <<pc, username, url, upstream, response, repos, it, idx,
                   names, ret, sent, target, decoded>>

EndFor(t) ==
    /\ pc[t] = "L62"
    /\ line[t] > Len(ret[t].value)
    /\ pc' = [pc EXCEPT ![t] = "done"]
    /\ UNCHANGED <<username, url, upstream, response, repos, it, idx, names,
                   ret, sent, target, decoded, line, out, log>>

(* main, lines 65-67: the generic message *)

PrintNoRepos(t) ==
    /\ pc[t] = "L66"
    /\ out' = [out EXCEPT ![t] = Append(@, NoReposMessage)]
    /\ LogInfo(1)
    /\ pc' = [pc EXCEPT ![t] = "done"]
    /\ UNCHANGED <<username, url, upstream, response, repos, it, idx, names,
                   ret, sent, target, decoded, line>>

-----------------------------------------------------------------------------
(* One run of main() against every upstream behaviour *)

Next ==
    \/ \E t \in Threads : Input(t, Usernames)
    \/ \E t \in Threads : BuildUrl(t)
    \/ \E t \in Threads : Get(t, Upstreams)
    \/ \E t \in Threads : CheckStatus(t)
    \/ \E t \in Threads : Json(t)
    \/ \E t \in Threads : Iter(t)
    \/ \E t \in Threads : ForRepo(t)
    \/ \E t \in Threads : ReturnNames(t)
    \/ \E t \in Threads : ReturnEmpty(t)
    \/ \E t \in Threads : CheckRepos(t)
    \/ \E t \in Threads : PrintHeader(t)
    \/ \E t \in Threads : PrintRepo(t)
    \/ \E t \in Threads : EndFor(t)
    \/ \E t \in Threads : PrintNoRepos(t)

Spec == Init /\ [][Next]_vars

(* NumThreads runs whose steps interleave in any order *)

NextConc ==
    \/ \E t \in Threads : Input(t, ConcUsernames)
    \/ \E t \in Threads : BuildUrl(t)
    \/ \E t \in Threads : Get(t, ConcUpstreams)
    \/ \E t \in Threads : CheckStatus(t)
    \/ \E t \in Threads : Json(t)
    \/ \E t \in Threads : Iter(t)
    \/ \E t \in Threads : ForRepo(t)
    \/ \E t \in Threads : ReturnNames(t)
    \/ \E t \in Threads : ReturnEmpty(t)
    \/ \E t \in Threads : CheckRepos(t)
    \/ \E t \in Threads : PrintHeader(t)
    \/ \E t \in Threads : PrintRepo(t)
    \/ \E t \in Threads : EndFor(t)
    \/ \E t \in Threads : PrintNoRepos(t)

SpecConc == InitConc /\ [][NextConc]_vars

-----------------------------------------------------------------------------
(* Vocabulary of the properties *)

\* the call to get_public_repositories of run t has ended
Ended(t) == ret[t].kind # "none"

\* requests.get returned a response with this run's status test
Answered(t) == upstream[t] # NoResponse /\ upstream[t].raises = ""

\* a JSON array of objects that each have a `name` member
IsRepoArray(b) ==
    /\ b.kind = "array"
    /\ \A i \in 1..Len(b.items) :
          /\ b.items[i].kind = "object"
          /\ \E j \in 1..Len(b.items[i].items) : b.items[i].items[j].str = "name"

\* the values an object holds under `name`
NameValues(o) ==
    {o.items[j].items[1].str : j \in {k \in 1..Len(o.items) : o.items[k].str = "name"}}

\* the values run t holds as its own: everything but the logger
Locals(t) ==
    <<pc[t], username[t], url[t], upstream[t], response[t], repos[t], it[t],
      idx[t], names[t], ret[t], sent[t], target[t], decoded[t], line[t], out[t]>>

-----------------------------------------------------------------------------
(* C1: a 200 response whose body is an array of N objects with a `name`    *)
(* never makes the call raise, and the call returns exactly the N names,   *)
(* in the order of the array, duplicates kept, [] for the empty array.     *)

C1_NamesInOrder ==
    \A t \in Threads :
        (Answered(t) /\ upstream[t].status_code = 200 /\ IsRepoArray(upstream[t].body))
        => /\ ret[t].kind # "raised"
           /\ pc[t] # "crashed"
           /\ Ended(t) =>
                LET arr == upstream[t].body.items
                IN  /\ ret[t].kind = "returned"
                    /\ Len(ret[t].value) = Len(arr)
                    /\ \A i \in 1..Len(arr) : NameValues(arr[i]) = {ret[t].value[i]}

C1_Witness ==
    \E t \in Threads :
        /\ upstream[t] = Responds(200, JArr(<<Repo2, Repo1>>))
        /\ ret[t] = Returned(<<"repo2", "repo1">>)
        /\ pc[t] = "done"

(* C2: any status other than 200 makes the call return [] without an       *)
(* error, whatever the body, and response.json() is never called.          *)

C2_Non200Empty ==
    \A t \in Threads :
        (Answered(t) /\ upstream[t].status_code # 200)
        => /\ ~decoded[t]
           /\ ret[t].kind # "raised"
           /\ pc[t] # "crashed"
           /\ Ended(t) => ret[t] = Returned(<<>>)
           /\ pc[t] \in {"L32", "L37"} \/ Ended(t)

C2_Witness ==
    \E t \in Threads :
        /\ upstream[t] = Responds(201, JInvalid)
        /\ ret[t] = Returned(<<>>)
        /\ ~decoded[t]
        /\ pc[t] = "done"

(* C3: a call issues exactly one requests.get: never more than one, and    *)
(* exactly one once the call has ended, however it ended.                  *)

C3_OneRequest ==
    \A t \in Threads :
        /\ sent[t] <= 1
        /\ Ended(t) => sent[t] = 1
        /\ pc[t] \in {"done", "crashed"} => sent[t] = 1

C3_Witness ==
    \E t \in Threads :
        /\ upstream[t] = Fails("Timeout")
        /\ pc[t] = "crashed"
        /\ sent[t] = 1

(* C4: when requests.get itself raises, the call returns nothing: the      *)
(* exception leaves the call, and the run, as it was raised.               *)

EmptyIterable(b) == b.kind \in {"object", "string"} /\ Len(IterItems(b)) = 0

(* C5, amended: such a body makes the call end with an error and return    *)
(* nothing, except the empty object and the empty string, for which the    *)
(* call returns [].                                                        *)

ErrorOutcome(t) ==
    /\ upstream[t] # NoResponse
    /\ \/ upstream[t].raises # ""
       \/ upstream[t].status_code # 200
       \/ ~IsRepoArray(upstream[t].body)

(* C6, the docstring: every error outcome (a status other than 200, a      *)
(* failed request, an undecodable or wrongly shaped body) ends with the    *)
(* call returning [].                                                      *)

C6_ErrorsReturnEmpty ==
    \A t \in Threads :
        (ErrorOutcome(t) /\ pc[t] \in {"done", "crashed"})
        => ret[t] = Returned(<<>>)

(* C7: two invocations with the same username and the same upstream        *)
(* behaviour end the same way, whatever else ran before or between them.   *)

C7_Idempotent ==
    \A t1, t2 \in Threads :
        (Ended(t1) /\ Ended(t2) /\ username[t1] = username[t2]
            /\ upstream[t1] = upstream[t2])
        => ret[t1] = ret[t2]

C7_Witness ==
    \E t1, t2 \in Threads :
        /\ t1 # t2
        /\ username[t1] = username[t2]
        /\ upstream[t1] = Responds(200, JArr(<<Repo1, Repo2>>))
        /\ upstream[t2] = upstream[t1]
        /\ pc[t1] = "done" /\ pc[t2] = "L57"
        /\ ret[t1] = Returned(<<"repo1", "repo2">>)
        /\ ret[t2] = ret[t1]

\* the call as one sequential evaluation of lines 25-40
Alone(u, r) ==
    IF r.raises # "" THEN Raised(r.raises)
    ELSE IF r.status_code # 200 THEN Returned(<<>>)
    ELSE IF r.body.kind = "invalid" THEN Raised("JSONDecodeError")
    ELSE IF r.body.kind \notin {"array", "object", "string"} THEN Raised("TypeError")
    ELSE LET xs == IterItems(r.body)
             bad == {i \in 1..Len(xs) : SubscriptError(xs[i]) # ""}
         IN  IF bad # {}
             THEN Raised(SubscriptError(xs[CHOOSE i \in bad : \A j \in bad : i <= j]))
             ELSE Returned([i \in 1..Len(xs) |-> Subscript(xs[i])])

\* each ended call ended as it would alone
C8_AsAlone ==
    \A t \in Threads : Ended(t) => ret[t] = Alone(username[t], upstream[t])

\* a step changes the locals of at most one run
C8_OwnData ==
    \A t1, t2 \in Threads :
        t1 # t2 => (Locals(t1)' = Locals(t1) \/ Locals(t2)' = Locals(t2))

(* C8: under any interleaving each invocation ends as it would alone on    *)
(* its own username and response, and no step changes the data of two      *)
(* runs.                                                                   *)

C8_Independent == [](C8_AsAlone) /\ [][C8_OwnData]_vars

C8_Witness ==
    \E t1, t2 \in Threads :
        /\ t1 # t2
        /\ pc[t1] = "L35for" /\ idx[t1] = 2
        /\ upstream[t1] = Responds(200, JArr(<<Repo1, Repo2>>))
        /\ upstream[t2] = Responds(200, JArr(<<Repo1, NoName>>))
        /\ ret[t2] = Raised("KeyError")
        /\ username[t1] # username[t2]

\* what a finished run has printed, from what its call returned
C9_Printed(t) ==
    IF Len(ret[t].value) > 0
    THEN /\ Len(out[t]) = 1 + Len(ret[t].value)
         /\ out[t][1] = "Public repositories of " \o username[t] \o ":"
         /\ \A i \in 1..Len(ret[t].value) : out[t][i + 1] = "- " \o ret[t].value[i]
    ELSE out[t] = <<"No public repositories found or an error occurred.">>

(* C9: main prints the header and one line per returned name, in order,    *)
(* when the call returns a non-empty list, and only the generic message    *)
(* otherwise; a run that got a non-200 status and a run that got 200 with  *)
(* an empty array, on the same username, print the same.                   *)

C9_Output ==
    /\ \A t \in Threads : pc[t] = "done" => C9_Printed(t)
    /\ \A t1, t2 \in Threads :
          (/\ pc[t1] = "done" /\ pc[t2] = "done"
           /\ username[t1] = username[t2]
           /\ upstream[t1].status_code # 200
           /\ upstream[t2] = Responds(200, JArr(<<>>)))
          => out[t1] = out[t2]

C9_Witness ==
    \E t1, t2 \in Threads :
        /\ pc[t1] = "done" /\ pc[t2] = "done"
        /\ username[t1] = "octocat" /\ username[t2] = "octocat"
        /\ upstream[t1] = Responds(404, NotFoundBody)
        /\ upstream[t2] = Responds(200, JArr(<<>>))
        /\ out[t1] = out[t2]
        /\ Len(out[t1]) = 1

(* C10: the URL handed to requests.get is the fixed prefix, the username   *)
(* character for character, and "/repos"; and no username keeps a run from *)
(* reaching the request.                                                   *)

C10_Target ==
    \A t \in Threads :
        /\ pc[t] \notin {"L54", "L56", "L27"} => sent[t] = 1
        /\ sent[t] >= 1 =>
             LET p == "https://api.github.com/users/"
                 n == Len(username[t])
             IN  /\ Len(target[t]) = Len(p) + n + Len("/repos")
                 /\ SubSeq(target[t], 1, Len(p)) = p
                 /\ SubSeq(target[t], Len(p) + 1, Len(p) + n) = username[t]
                 /\ SubSeq(target[t], Len(p) + n + 1, Len(target[t])) = "/repos"

C10_Witness ==
    \E t \in Threads :
        /\ username[t] = "a/b?c"
        /\ sent[t] = 1
        /\ target[t] = "https://api.github.com/users/a/b?c/repos"

====
